---- MODULE Spec2Model ----
(***************************************************************************)
(* Model of the ingredient safety resolution pipeline (ingredientAnalyzer), *)
(* of its remote lookup adapter and of the ewg-search edge function.       *)
(* Strings are TLA+ strings; a value that may be null/undefined in the     *)
(* source is a sequence of length 0 (absent) or 1 (present).               *)
(*                                                                         *)
(* Spec          analyzeIngredients, called with a text                    *)
(* FunctionSpec  the helper functions, each called on its own              *)
(* RetrySpec     fetchWithRetry, called on its own (RetryFairSpec: every   *)
(*               awaited operation settles)                                *)
(* EdgeSpec      the ewg-search request handler serving one request        *)
(*               (EdgeFairSpec: every awaited operation settles)           *)
(***************************************************************************)
EXTENDS Integers, Sequences, FiniteSets, TLC

\* analyzeIngredients
VARIABLES input, pc, calls, ingredientsArray, started, inflight,
          analyzedIngredients, lookups, responses, previousReturn, issued
\* a helper function called on its own: its name, arguments and result
VARIABLES called, arguments, returned

\* fetchWithRetry
VARIABLES maxRetries, retryIndex, retryPc, attempts, outcome
\* the ewg-search request handler and scrapeWithPuppeteer
VARIABLES request, handlerPc, scrapePc, browser, scraped, htmlRead, sent

pipelineVars == <<input, pc, calls, ingredientsArray, started, inflight,
                  analyzedIngredients, lookups, responses, previousReturn, issued>>
functionVars == <<called, arguments, returned>>
retryVars == <<maxRetries, retryIndex, retryPc, attempts, outcome>>
handlerVars == <<request, handlerPc, scrapePc, browser, scraped, htmlRead, sent>>
edgeVars == <<retryVars, handlerVars>>

vars == <<pipelineVars, functionVars, edgeVars>>

\* ------------------------------------------------------------------ bounds
\* Pieces concatenated to build a generated input text.
MaxPieces == 3
\* Calls of analyzeIngredients made in one behaviour.
MaxCalls == 2
\* Length of the strings calculateStringSimilarity is called with on its own.
MaxLength == 3
\* Greatest maxRetries fetchWithRetry is called with on its own.
MaxRetries == 4

\* ------------------------------------------------------- optional values
None == <<>>
Some(v) == <<v>>

\* Tabulated(f) is the function f, held as an explicit table of its values.
Tabulated(f) == f @@ <<>>

\* ---------------------------------------------------------------- strings
Char(s, i) == SubSeq(s, i, i)

\* toLowerCase / toUpperCase of one character.
UpperToLower ==
  [A |-> "a", B |-> "b", C |-> "c", D |-> "d", E |-> "e", F |-> "f", G |-> "g",
   H |-> "h", I |-> "i", J |-> "j", K |-> "k", L |-> "l", M |-> "m", N |-> "n",
   O |-> "o", P |-> "p", Q |-> "q", R |-> "r", S |-> "s", T |-> "t", U |-> "u",
   V |-> "v", W |-> "w", X |-> "x", Y |-> "y", Z |-> "z"]

LowerToUpper ==
  [a |-> "A", b |-> "B", c |-> "C", d |-> "D", e |-> "E", f |-> "F", g |-> "G",
   h |-> "H", i |-> "I", j |-> "J", k |-> "K", l |-> "L", m |-> "M", n |-> "N",
   o |-> "O", p |-> "P", q |-> "Q", r |-> "R", s |-> "S", t |-> "T", u |-> "U",
   v |-> "V", w |-> "W", x |-> "X", y |-> "Y", z |-> "Z"]

DigitValue ==
  ("0" :> 0) @@ ("1" :> 1) @@ ("2" :> 2) @@ ("3" :> 3) @@ ("4" :> 4) @@
  ("5" :> 5) @@ ("6" :> 6) @@ ("7" :> 7) @@ ("8" :> 8) @@ ("9" :> 9)

LowerChar(c) == IF c \in DOMAIN UpperToLower THEN UpperToLower[c] ELSE c
UpperChar(c) == IF c \in DOMAIN LowerToUpper THEN LowerToUpper[c] ELSE c

\* Every character is lowercased on its own: the lowercase of a text is the
\* concatenation of the lowercases of its two halves.
RECURSIVE toLowerCase(_)
toLowerCase(s) ==
  IF Len(s) = 0 THEN ""
  ELSE IF Len(s) = 1 THEN LowerChar(s)
  ELSE toLowerCase(SubSeq(s, 1, Len(s) \div 2))
         \o toLowerCase(SubSeq(s, Len(s) \div 2 + 1, Len(s)))

IsDigit(c) == c \in DOMAIN DigitValue
\* \w
IsWordChar(c) ==
  c \in DOMAIN LowerToUpper \/ c \in DOMAIN UpperToLower \/ IsDigit(c) \/ c = "_"

\* String.prototype.includes
Includes(s, sub) ==
  \E i \in 1..(Len(s) - Len(sub) + 1) : SubSeq(s, i, i + Len(sub) - 1) = sub

\* Array.prototype.join
RECURSIVE Join(_, _)
Join(parts, sep) ==
  IF Len(parts) = 0 THEN ""
  ELSE IF Len(parts) = 1 THEN parts[1]
  ELSE parts[1] \o sep \o Join(Tail(parts), sep)

IsWhitespace(c) == c \in {" ", "\t", "\r", "\n"}
Delimiters == {",", ";", "\n"}
IsDelimiter(c) == c \in Delimiters

\* String.prototype.trim
RECURSIVE trimStart(_)
trimStart(s) ==
  IF Len(s) > 0 /\ IsWhitespace(Char(s, 1)) THEN trimStart(SubSeq(s, 2, Len(s)))
  ELSE s

RECURSIVE trimEnd(_)
trimEnd(s) ==
  IF Len(s) > 0 /\ IsWhitespace(Char(s, Len(s))) THEN trimEnd(SubSeq(s, 1, Len(s) - 1))
  ELSE s

trim(s) == trimEnd(trimStart(s))

\* The regular expression search: the first position from i on whose
\* character is in chars (member = TRUE) or is not in chars (member =
\* FALSE), or Len(s) + 1 when there is none.
FirstFrom(s, i, chars, member) ==
  CHOOSE j \in i..(Len(s) + 1) :
    /\ j = Len(s) + 1 \/ (Char(s, j) \in chars) = member
    /\ \A k \in i..(j - 1) : (Char(s, k) \in chars) # member

\* split(/[,;\n]+/) from position i: the piece up to the next run of
\* delimiters, then the pieces after that run; a text that starts or ends
\* with a run yields an empty first or last piece.
RECURSIVE SplitFrom(_, _)
SplitFrom(s, i) ==
  LET j == FirstFrom(s, i, Delimiters, TRUE) IN
  IF j > Len(s) THEN <<SubSeq(s, i, Len(s))>>
  ELSE <<SubSeq(s, i, j - 1)>> \o SplitFrom(s, FirstFrom(s, j, Delimiters, FALSE))

splitDelimiters(s) == SplitFrom(s, 1)

\* split(' '): every single space separates, empty words are kept.
RECURSIVE SplitSpaceFrom(_, _)
SplitSpaceFrom(s, i) ==
  LET j == FirstFrom(s, i, {" "}, TRUE) IN
  IF j > Len(s) THEN <<SubSeq(s, i, Len(s))>>
  ELSE <<SubSeq(s, i, j - 1)>> \o SplitSpaceFrom(s, j + 1)

splitSpaces(s) == SplitSpaceFrom(s, 1)

\* filter(item => item && item.length > 1)
KeepTokenAny(item) == TRUE
KeepToken(item) == item # "" /\ Len(item) > 1

SelectKept(items) == SelectSeq(items, KeepToken)

\* The items with every repeated item dropped.
RECURSIVE Distinct(_, _)
Distinct(items, acc) ==
  IF Len(items) = 0 THEN acc
  ELSE IF \E k \in 1..Len(acc) : acc[k] = Head(items) THEN Distinct(Tail(items), acc)
  ELSE Distinct(Tail(items), Append(acc, Head(items)))

tokenizeDedup(ingredientList) ==
  LET pieces == splitDelimiters(toLowerCase(ingredientList)) IN
  Distinct(SelectKept([k \in 1..Len(pieces) |-> trim(pieces[k])]), <<>>)

\* The first statement of analyzeIngredients.
tokenize(ingredientList) ==
  LET pieces == splitDelimiters(toLowerCase(ingredientList)) IN
  SelectKept([k \in 1..Len(pieces) |-> trim(pieces[k])])

\* word.charAt(0).toUpperCase() + word.slice(1)
capitalize(word) ==
  IF Len(word) = 0 THEN "" ELSE UpperChar(Char(word, 1)) \o SubSeq(word, 2, Len(word))

titleCase(name) ==
  LET words == splitSpaces(name) IN
  Join([k \in 1..Len(words) |-> capitalize(words[k])], " ")

\* ------------------------------------------------------------ input texts
Pieces == {"ab", "C", ",", "\n", " "}

RECURSIVE PieceTexts(_)
PieceTexts(n) ==
  IF n = 0 THEN {""}
  ELSE PieceTexts(n - 1) \cup {t \o p : t \in PieceTexts(n - 1), p \in Pieces}

InputTexts ==
  PieceTexts(MaxPieces) \cup
  { "Water, Glycerin, Methylparaben",
    "paraben;glycerine",
    " Zinc  Oxide \n\txyz;;x",
    "green tea",
    "Constructor, Aqua" }

\* The tokens of each input text, and the tokens that occur at all.
ingredientsOf == Tabulated([text \in InputTexts |-> tokenize(text)])

TokenUniverse ==
  UNION {{ingredientsOf[text][k] : k \in 1..Len(ingredientsOf[text])} : text \in InputTexts}

\* The names findIngredientInDatabase is called with on its own: the
\* tokens that occur, and names that are a key in another case, near a key,
\* equally near two keys, far from every key, or an inherited property name.
MatchNames ==
  TokenUniverse \cup
  { "", "xyzxyzxyz", "PARABEN", "Vitamin E", "vitamin d", "vitamin", "parabens",
    "parabenes", "zinc oxid", "Zinc Oxyde", "glycerol", "glycerins", "sodium benzoat",
    "hyaluronic acids", "phenoxyethanols", "__proto__", "valueof" }

\* ------------------------------------------------------ curated database
\* ingredientDatabase, in declaration order (Object.entries order).  A value
\* looked up in it may lack any field (see InheritedValue), so the fields
\* read from a match are optional values.
ingredientDatabase == <<
  [key |-> "paraben", baseScore |-> Some(8), category |-> Some("Preservative"),
   concerns |-> Some(<<"Endocrine disruption", "Reproductive toxicity",
                  "Potential carcinogenic effects", "Skin sensitization">>),
   benefits |-> Some(<<"Effective preservation", "Extends product shelf life">>),
   scientificName |-> None,
   restrictions |-> Some(<<"Restricted in EU", "Limited use in Japan">>),
   naturalAlternatives |-> Some(<<"Grapefruit seed extract", "Rosemary extract", "Neem oil">>),
   researchLinks |-> Some(<<"https://pubmed.ncbi.nlm.nih.gov/parabens-safety",
                            "https://www.sciencedirect.com/topics/parabens-toxicology">>)],
  [key |-> "phenoxyethanol", baseScore |-> Some(4), category |-> Some("Preservative"),
   concerns |-> Some(<<"Potential skin irritation", "Allergic reactions in sensitive individuals">>),
   benefits |-> Some(<<"Broad spectrum preservation", "Stable in formulations">>),
   scientificName |-> None, restrictions |-> None,
   naturalAlternatives |-> Some(<<"Leuconostoc ferment filtrate", "Lactobacillus ferment">>),
   researchLinks |-> None],
  [key |-> "sodium benzoate", baseScore |-> Some(3), category |-> Some("Preservative"),
   concerns |-> Some(<<"Potential irritation at high concentrations">>),
   benefits |-> Some(<<"Natural origin option", "Effective against mold">>),
   scientificName |-> Some("Sodium benzoate"), restrictions |-> None,
   naturalAlternatives |-> None, researchLinks |-> None],
  [key |-> "sodium lauryl sulfate", baseScore |-> Some(6), category |-> Some("Surfactant"),
   concerns |-> Some(<<"Skin irritation", "Barrier disruption", "Environmental concerns",
                  "Potential contamination with 1,4-dioxane">>),
   benefits |-> Some(<<"Effective cleansing", "Good foaming">>),
   scientificName |-> None, restrictions |-> None,
   naturalAlternatives |-> Some(<<"Decyl glucoside", "Coco glucoside">>),
   researchLinks |-> None],
  [key |-> "cocamidopropyl betaine", baseScore |-> Some(3), category |-> Some("Surfactant"),
   concerns |-> Some(<<"Mild skin sensitization">>),
   benefits |-> Some(<<"Gentle cleansing", "Reduces irritation from other surfactants">>),
   scientificName |-> None, restrictions |-> None,
   naturalAlternatives |-> None, researchLinks |-> None],
  [key |-> "glycerin", baseScore |-> Some(1), category |-> Some("Emollient"),
   concerns |-> Some(<<>>),
   benefits |-> Some(<<"Hydration", "Skin barrier support", "Natural moisture factor",
                       "Improves product texture">>),
   scientificName |-> Some("Glycerol"), restrictions |-> None,
   naturalAlternatives |-> None, researchLinks |-> None],
  [key |-> "hyaluronic acid", baseScore |-> Some(1), category |-> Some("Humectant"),
   concerns |-> Some(<<>>),
   benefits |-> Some(<<"Deep hydration", "Anti-aging properties", "Supports skin barrier",
                       "Improves wound healing">>),
   scientificName |-> Some("Sodium Hyaluronate"), restrictions |-> None,
   naturalAlternatives |-> None, researchLinks |-> None],
  [key |-> "vitamin e", baseScore |-> Some(1), category |-> Some("Antioxidant"),
   concerns |-> Some(<<>>),
   benefits |-> Some(<<"Antioxidant protection", "Skin conditioning", "Anti-inflammatory",
                       "Helps preserve other ingredients">>),
   scientificName |-> Some("Tocopherol"), restrictions |-> None,
   naturalAlternatives |-> None, researchLinks |-> None],
  [key |-> "vitamin c", baseScore |-> Some(1), category |-> Some("Antioxidant"),
   concerns |-> Some(<<"Stability issues">>),
   benefits |-> Some(<<"Brightening", "Collagen support", "Photoprotection", "Anti-aging">>),
   scientificName |-> Some("Ascorbic Acid"), restrictions |-> None,
   naturalAlternatives |-> None, researchLinks |-> None],
  [key |-> "titanium dioxide", baseScore |-> Some(3), category |-> Some("UV Filter"),
   concerns |-> Some(<<"Potential inhalation risk (powder form)", "Nanoparticle concerns">>),
   benefits |-> Some(<<"Broad spectrum protection", "Stable sun protection", "Non-irritating">>),
   scientificName |-> Some("TiO2"), restrictions |-> None,
   naturalAlternatives |-> None, researchLinks |-> None],
  [key |-> "zinc oxide", baseScore |-> Some(2), category |-> Some("UV Filter"),
   concerns |-> Some(<<"White cast on skin">>),
   benefits |-> Some(<<"Natural sun protection", "Skin soothing", "Anti-inflammatory">>),
   scientificName |-> Some("ZnO"), restrictions |-> None,
   naturalAlternatives |-> None, researchLinks |-> None]
>>

\* "key in ingredientDatabase" also holds for the properties the object
\* inherits from Object.prototype; these are the inherited names that are
\* their own lower case.
InheritedKeys == {"constructor", "__proto__"}

\* ingredientDatabase[key] for an inherited key: an object (truthy) with
\* none of the fields of an entry.
InheritedValue(key) ==
  [key |-> key, baseScore |-> None, category |-> None, concerns |-> None,
   benefits |-> None, scientificName |-> None, restrictions |-> None,
   naturalAlternatives |-> None, researchLinks |-> None]

\* ------------------------------------------------------ string similarity
Min2(a, b) == IF a < b THEN a ELSE b
Min3(a, b, c) == Min2(a, Min2(b, c))

\* One row matrix[j] of the edit-distance matrix from the row above it.
\* A row is a sequence whose element i + 1 is matrix[j][i].
substitutionCostOne(str1, str2, i, j) == 1
substitutionCost(str1, str2, i, j) == IF Char(str1, i) = Char(str2, j) THEN 0 ELSE 1

\* matrix[j][i] from the cell to its left and the row above.
Cell(str1, str2, j, i, above, row) ==
  Min3(row[i] + 1, above[i + 1] + 1, above[i] + substitutionCost(str1, str2, i, j))

\* The inner loop: row holds matrix[j][0 .. Len(row) - 1], so i = Len(row).
RECURSIVE FillRow(_, _, _, _, _)
FillRow(str1, str2, j, above, row) ==
  IF Len(row) > Len(str1) THEN row
  ELSE FillRow(str1, str2, j, above, Append(row, Cell(str1, str2, j, Len(row), above, row)))

\* The outer loop: matrix holds the rows matrix[0 .. Len(matrix) - 1], so
\* j = Len(matrix); row j starts with matrix[j][0] = j and is filled from the
\* row above it.
RECURSIVE FillMatrix(_, _, _)
FillMatrix(str1, str2, matrix) ==
  IF Len(matrix) > Len(str2) THEN matrix
  ELSE FillMatrix(str1, str2,
         Append(matrix, FillRow(str1, str2, Len(matrix), matrix[Len(matrix)], <<Len(matrix)>>)))

\* matrix[0][i] = i.
editDistance(str1, str2) ==
  FillMatrix(str1, str2, <<[i \in 1..(Len(str1) + 1) |-> i - 1]>>)[Len(str2) + 1][Len(str1) + 1]

\* calculateStringSimilarity as the exact fraction <<numerator, denominator>>;
\* 1.0 for two empty strings is <<1, 1>>.
calculateStringSimilarity(str1, str2) ==
  LET longer  == IF Len(str1) > Len(str2) THEN str1 ELSE str2
      shorter == IF Len(str1) > Len(str2) THEN str2 ELSE str1
  IN IF Len(longer) = 0 THEN <<1, 1>>
     ELSE <<Len(longer) - editDistance(longer, shorter), Len(longer)>>

\* Comparison of two fractions with positive denominators, and of a fraction
\* with the literals 0 and 0.8 (= 4/5).
FracGreater(a, b) == a[1] * b[2] > b[1] * a[2]
SimilarityThreshold == <<4, 5>>

\* The similarity the scan computes for each entry, by position.
Similarities(normalizedInput) ==
  Tabulated([k \in 1..Len(ingredientDatabase) |->
               calculateStringSimilarity(normalizedInput, ingredientDatabase[k].key)])

\* The scan of findIngredientInDatabase from entry k on, with the values
\* bestMatch and highestMatchScore hold when it gets there.
RECURSIVE ScanDatabase(_, _, _, _)
ScanDatabase(similarity, k, bestMatch, highestMatchScore) ==
  IF k > Len(ingredientDatabase) THEN bestMatch
  ELSE IF /\ FracGreater(similarity[k], highestMatchScore)
          /\ FracGreater(similarity[k], SimilarityThreshold)
       THEN ScanDatabase(similarity, k + 1, Some(ingredientDatabase[k]), similarity[k])
       ELSE ScanDatabase(similarity, k + 1, bestMatch, highestMatchScore)

\* The body of findIngredientInDatabase: the direct match, else the scan.
FindMatch(ingredient) ==
  LET normalizedInput == toLowerCase(ingredient) IN
  IF \E k \in 1..Len(ingredientDatabase) : ingredientDatabase[k].key = normalizedInput
  THEN Some(ingredientDatabase[CHOOSE k \in 1..Len(ingredientDatabase) :
                                 ingredientDatabase[k].key = normalizedInput])
  ELSE IF normalizedInput \in InheritedKeys THEN Some(InheritedValue(normalizedInput))
  ELSE ScanDatabase(Similarities(normalizedInput), 1, None, <<0, 1>>)

\* What findIngredientInDatabase returns for the names it is called with,
\* computed once; for any other text it is computed when asked for.
matchOf == Tabulated([name \in MatchNames |-> FindMatch(name)])

findIngredientInDatabase(ingredient) ==
  IF ingredient \in DOMAIN matchOf THEN matchOf[ingredient] ELSE FindMatch(ingredient)

\* ----------------------------------------------------- heuristic classifier
\* /peg-\d+/i on a lowercased text: "peg-" followed by a digit.
MatchesPegDigits(lower) ==
  \E i \in 1..(Len(lower) - 4) : SubSeq(lower, i, i + 3) = "peg-" /\ IsDigit(Char(lower, i + 4))

highPatterns ==
  {"paraben", "phthalate", "formaldehyde", "triclosan", "bha", "bht", "toluene",
   "petroleum", "lead", "mercury", "hydroquinone", "oxybenzone", "coal tar",
   "ethanolamines", "dioxane", "nitrosamine", "polyethylene"}

moderatePatterns ==
  {"phenoxyethanol", "sodium lauryl sulfate", "propylene", "butylene", "synthetic",
   "fragrance", "dmdm", "diazolidinyl", "quaternium", "methylisothiazolinone"}

lowPatterns ==
  {"water", "aqua", "aloe", "glycerin", "vitamin", "panthenol", "allantoin", "zinc",
   "titanium dioxide", "hyaluronic", "ceramide", "peptide", "amino acid"}

\* The anchored patterns ^...$ match the whole text.
veryLowPatterns ==
  {"water", "aloe vera", "glycerin", "vitamin a", "vitamin b", "vitamin c",
   "vitamin d", "vitamin e", "zinc oxide", "green tea", "chamomile", "calendula",
   "jojoba oil", "shea butter"}

\* calculateDefaultScore with the veryLow tier tested first.
calculateDefaultScoreVeryLowFirst(ingredient) ==
  LET lower == toLowerCase(ingredient) IN
  IF lower \in veryLowPatterns THEN 1
  ELSE IF \E p \in highPatterns : Includes(lower, p) THEN 8
  ELSE IF MatchesPegDigits(lower) \/ \E p \in moderatePatterns : Includes(lower, p) THEN 5
  ELSE IF \E p \in lowPatterns : Includes(lower, p) THEN 2
  ELSE 5

calculateDefaultScore(ingredient) ==
  LET lower == toLowerCase(ingredient) IN
  IF \E p \in highPatterns : Includes(lower, p) THEN 8
  ELSE IF MatchesPegDigits(lower) \/ \E p \in moderatePatterns : Includes(lower, p) THEN 5
  ELSE IF \E p \in lowPatterns : Includes(lower, p) THEN 2
  ELSE IF lower \in veryLowPatterns THEN 1
  ELSE 5

\* A number that may be absent.  An absent number is null where parseScore
\* gave it and undefined where a field was read that the value lacks.  In a
\* comparison null counts as 0 (null <= 2 is true) and undefined as NaN, for
\* which every comparison is false.
NullAsNumber(score) == IF score = None THEN Some(0) ELSE score

\* score <= bound, for a score that is a number or undefined.
LessOrEqual(score, bound) == score # None /\ score[1] <= bound

\* getSafetyLevel and getDefaultConcern, for a number or undefined.
getSafetyLevel(score) ==
  IF LessOrEqual(score, 2) THEN "Low Concern"
  ELSE IF LessOrEqual(score, 6) THEN "Moderate Concern"
  ELSE "High Concern"

getDefaultConcernNoHigh(score) ==
  IF LessOrEqual(score, 2)
  THEN Some("Generally recognized as safe with extensive safety data")
  ELSE IF LessOrEqual(score, 6)
  THEN Some("Moderate safety concerns, may require more research")
  ELSE None

getDefaultConcern(score) ==
  IF LessOrEqual(score, 2)
  THEN Some("Generally recognized as safe with extensive safety data")
  ELSE IF LessOrEqual(score, 6)
  THEN Some("Moderate safety concerns, may require more research")
  ELSE Some("High safety concerns, potential risks identified")

\* An ordered table of <<label, keywords>>: the first label one of whose
\* keywords the lowercased name includes, or the fallback.
RECURSIVE FirstLabel(_, _, _, _)
FirstLabel(table, k, lowerIngredient, fallback) ==
  IF k > Len(table) THEN fallback
  ELSE IF \E keyword \in table[k][2] : Includes(lowerIngredient, keyword)
       THEN table[k][1]
       ELSE FirstLabel(table, k + 1, lowerIngredient, fallback)

functions == <<
  <<"Preservative", {"paraben", "phenoxyethanol", "benzoate", "sorbate", "formaldehyde",
      "methylisothiazolinone", "benzyl alcohol", "potassium sorbate", "sodium benzoate",
      "ethylhexylglycerin"}>>,
  <<"Surfactant", {"lauryl", "laureth", "sodium", "cocamide", "sulfate", "betaine",
      "decyl glucoside", "coco-glucoside", "polysorbate", "taurate", "isethionate",
      "amphoacetate"}>>,
  <<"Emollient", {"oil", "butter", "glycerin", "lanolin", "dimethicone", "squalane",
      "ceramide", "fatty acid", "triglyceride", "caprylic", "stearic", "cetyl",
      "cetearyl", "isopropyl myristate"}>>,
  <<"Fragrance", {"fragrance", "parfum", "aroma", "essential oil", "limonene",
      "linalool", "citral", "geraniol", "citronellol", "eugenol"}>>,
  <<"UV Filter", {"benzophenone", "avobenzone", "titanium dioxide", "zinc oxide",
      "octinoxate", "oxybenzone", "octocrylene", "homosalate",
      "ethylhexyl methoxycinnamate", "tinosorb"}>>,
  <<"Antioxidant", {"tocopherol", "vitamin", "retinol", "ascorbic", "niacinamide",
      "flavonoid", "polyphenol", "resveratrol", "ferulic", "ubiquinone"}>>,
  <<"Humectant", {"glycerin", "hyaluronic", "urea", "propylene glycol", "butylene glycol",
      "sodium pca", "sorbitol", "panthenol", "sodium lactate", "aloe"}>>,
  <<"Emulsifier", {"cetyl", "stearic", "glyceryl", "polysorbate", "cetearyl", "peg",
      "sorbitan", "carbomer", "hydroxypropyl", "lecithin"}>>,
  <<"pH Adjuster", {"citric acid", "lactic acid", "sodium hydroxide", "potassium hydroxide",
      "triethanolamine", "aminomethyl propanol"}>>,
  <<"Chelating Agent", {"edta", "tetrasodium", "disodium", "trisodium", "etidronic acid"}>>
>>

getIngredientFunction(ingredient) ==
  FirstLabel(functions, 1, toLowerCase(ingredient), "Other/Unknown")

uses == <<
  <<"Moisturizing agent", {"glycerin", "oil", "butter", "hyaluronic", "dimethicone",
      "squalane", "ceramide", "fatty acid", "jojoba", "aloe", "sodium pca", "urea",
      "panthenol"}>>,
  <<"Cleansing agent", {"lauryl", "laureth", "cocamide", "sulfate", "glucoside",
      "betaine", "sodium cocoyl", "decyl", "isethionate", "taurate"}>>,
  <<"Preservative system", {"paraben", "phenoxyethanol", "benzoate", "formaldehyde",
      "methylisothiazolinone", "potassium sorbate", "benzyl alcohol", "sodium benzoate",
      "ethylhexylglycerin"}>>,
  <<"Fragrance component", {"fragrance", "parfum", "aroma", "essential oil", "limonene",
      "linalool", "citral", "geraniol", "citronellol", "eugenol"}>>,
  <<"Sun protection", {"benzophenone", "avobenzone", "titanium", "zinc oxide",
      "octinoxate", "oxybenzone", "octocrylene", "homosalate", "tinosorb", "uvinul"}>>,
  <<"Antioxidant protection", {"tocopherol", "vitamin", "retinol", "ascorbic",
      "niacinamide", "flavonoid", "polyphenol", "resveratrol", "ferulic", "ubiquinone"}>>,
  <<"Thickening agent", {"carbomer", "xanthan", "cellulose", "guar", "carrageenan",
      "acacia", "agar", "alginate", "hydroxypropyl", "hydroxyethylcellulose"}>>,
  <<"Skin conditioning", {"aloe", "panthenol", "allantoin", "chamomile", "calendula",
      "green tea", "collagen", "peptide", "ceramide", "beta glucan"}>>,
  <<"pH balancing", {"citric acid", "lactic acid", "sodium hydroxide",
      "potassium hydroxide", "triethanolamine", "aminomethyl propanol"}>>,
  <<"Stabilizing agent", {"edta", "tetrasodium", "disodium", "trisodium",
      "etidronic acid", "sodium phytate", "sodium gluconate"}>>
>>

getCommonUse(ingredient) ==
  FirstLabel(uses, 1, toLowerCase(ingredient), "Various applications")

\* ------------------------------------------------------------- parseScore
\* The value of the digits of text from position i up to the first non-digit.
RECURSIVE DigitRun(_, _, _)
DigitRun(text, i, acc) ==
  IF i <= Len(text) /\ IsDigit(Char(text, i))
  THEN DigitRun(text, i + 1, 10 * acc + DigitValue[Char(text, i)])
  ELSE acc

\* parseInt(scoreText.match(/\d+/)[0]) for a text that holds a digit.
FirstInteger(text) ==
  DigitRun(text, CHOOSE i \in 1..Len(text) :
                   IsDigit(Char(text, i)) /\ \A j \in 1..(i - 1) : ~IsDigit(Char(text, j)), 0)

\* /\b(w1|w2|...)\b/i
MatchesWord(text, words) ==
  LET lower == toLowerCase(text) IN
  \E w \in words : \E i \in 1..(Len(lower) - Len(w) + 1) :
     /\ SubSeq(lower, i, i + Len(w) - 1) = w
     /\ (i = 1 \/ ~IsWordChar(Char(lower, i - 1)))
     /\ (i + Len(w) > Len(lower) \/ ~IsWordChar(Char(lower, i + Len(w))))

Clamp(score) == IF score > 10 THEN 10 ELSE IF score < 1 THEN 1 ELSE score

\* scoreText is absent (undefined) or a text; the result is absent (null) or a number.
parseScoreNoClamp(scoreText) ==
  IF scoreText = None \/ scoreText = Some("") THEN None
  ELSE LET text == scoreText[1] IN
       IF \E i \in 1..Len(text) : IsDigit(Char(text, i)) THEN Some(FirstInteger(text))
       ELSE IF MatchesWord(text, {"low", "safe", "minimal", "good"}) THEN Some(2)
       ELSE IF MatchesWord(text, {"moderate", "medium", "average"}) THEN Some(5)
       ELSE IF MatchesWord(text, {"high", "unsafe", "dangerous", "poor"}) THEN Some(8)
       ELSE None

parseScore(scoreText) ==
  IF scoreText = None \/ scoreText = Some("") THEN None
  ELSE LET text == scoreText[1] IN
       IF \E i \in 1..Len(text) : IsDigit(Char(text, i))
       THEN Some(Clamp(FirstInteger(text)))
       ELSE IF MatchesWord(text, {"low", "safe", "minimal", "good"}) THEN Some(2)
       ELSE IF MatchesWord(text, {"moderate", "medium", "average"}) THEN Some(5)
       ELSE IF MatchesWord(text, {"high", "unsafe", "dangerous", "poor"}) THEN Some(8)
       ELSE None

\* ---------------------------------------------------- remote lookup adapter
\* What the fetch of the ewg-search function can give back:
\*   kind "neterr"  - fetch rejects (network error);
\*   kind "notok"   - a response whose ok flag is false;
\*   kind "badjson" - response.json() throws;
\*   kind "json"    - a parsed body with an optional data array of product
\*                    entries and an optional html markup.  The markup is
\*                    given by what the selectors find in it: its sequence of
\*                    .product-listing nodes, each with the text of its parts.
Product(score, concerns, category) ==
  [score |-> score, concerns |-> concerns, category |-> category]

Listing(scoreText, concerns, functionText, useText) ==
  [scoreText |-> scoreText, concerns |-> concerns,
   functionText |-> functionText, useText |-> useText]

Failure(kind) == [kind |-> kind, data |-> None, html |-> None]
Body(data, html) == [kind |-> "json", data |-> data, html |-> html]

RemoteResponses ==
  { Failure("neterr"), Failure("notok"), Failure("badjson"),
    Body(None, None),
    Body(Some(<<>>), None),
    Body(Some(<<Product(Some("7"), Some(<<"Irritation", "Allergy">>), Some("Solvent")),
                Product(Some("2"), Some(<<>>), Some("Other"))>>), None),
    Body(Some(<<Product(Some("7"), Some(<<"Irritation", "Allergy">>), Some("Solvent"))>>), None),
    Body(Some(<<Product(None, Some(<<>>), None)>>), None),
    Body(Some(<<Product(None, Some(<<"Irritation">>), Some("Solvent"))>>), None),
    Body(Some(<<Product(Some("15"), Some(<<"Toxicity">>), Some(""))>>), None),
    Body(None, Some(<<>>)),
    Body(None, Some(<<Listing("Score: 3/10", <<"Mild irritation">>, "Humectant", "Moisturizer")>>)),
    Body(None, Some(<<Listing("", <<>>, "", "")>>)) }

\* a || b for numbers and for strings that may be absent: b when a is
\* null, undefined, 0 or "".
OrNumber(a, b) == IF a # None /\ a[1] # 0 THEN a ELSE b
OrString(a, b) == IF a # None /\ a[1] # "" THEN a ELSE b

\* dbMatch?.field?.join(sep)
JoinOptional(dbMatch, field, sep) ==
  IF dbMatch = None \/ dbMatch[1][field] = None THEN None
  ELSE Some(Join(dbMatch[1][field][1], sep))

\* dbMatch.concerns.join(', ') throws a TypeError when the value has no
\* concerns field.
JoinThrows(entry) == entry.concerns = None
JoinConcerns(entry) == Some(Join(entry.concerns[1], ", "))

Returned(value) == [outcome |-> "return", value |-> value]
Thrown == [outcome |-> "throw", value |-> None]

\* The partial record of the structured branch, from the first result.
StructuredRecord(ingredient, productData) ==
  [ewgScore |-> parseScore(productData.score),
   safetyLevel |-> Some(getSafetyLevel(NullAsNumber(parseScore(productData.score)))),
   reasonForConcern |->
     IF productData.concerns = None THEN None
     ELSE Some(Join(productData.concerns[1], ", ")),
   function |-> productData.category,
   commonUse |-> Some(getCommonUse(ingredient)),
   scientificName |-> None, benefits |-> None, restrictions |-> None,
   naturalAlternatives |-> None, researchLinks |-> None]

\* The partial record of the HTML branch, given the values its const
\* declarations hold: firstResult, dbMatch and finalScore.
HtmlRecord(ingredient, firstResult, dbMatch, finalScore) ==
  [ewgScore |-> finalScore,
   safetyLevel |-> Some(getSafetyLevel(finalScore)),
   reasonForConcern |->
     OrString(Some(Join(firstResult.concerns, ", ")),
              IF dbMatch # None THEN JoinConcerns(dbMatch[1])
              ELSE getDefaultConcern(finalScore)),
   function |->
     OrString(Some(firstResult.functionText),
              IF dbMatch # None THEN dbMatch[1].category
              ELSE Some(getIngredientFunction(ingredient))),
   commonUse |-> OrString(Some(firstResult.useText), Some(getCommonUse(ingredient))),
   scientificName |-> IF dbMatch = None THEN None ELSE dbMatch[1].scientificName,
   benefits |-> JoinOptional(dbMatch, "benefits", ", "),
   restrictions |-> JoinOptional(dbMatch, "restrictions", ", "),
   naturalAlternatives |-> JoinOptional(dbMatch, "naturalAlternatives", ", "),
   researchLinks |-> JoinOptional(dbMatch, "researchLinks", "\n")]

\* const finalScore = score || (dbMatch ? dbMatch.baseScore : calculateDefaultScore(ingredient))
FinalScore(ingredient, score, dbMatch) ==
  OrNumber(score, IF dbMatch # None THEN dbMatch[1].baseScore
                  ELSE Some(calculateDefaultScore(ingredient)))

\* The HTML branch throws where it joins the concerns of a match that has
\* none, which it does when the node lists no concern.
HtmlBranch(ingredient, firstResult, dbMatch) ==
  IF Join(firstResult.concerns, ", ") = "" /\ dbMatch # None /\ JoinThrows(dbMatch[1])
  THEN Thrown
  ELSE Returned(Some(
         HtmlRecord(ingredient, firstResult, dbMatch,
                    FinalScore(ingredient, parseScore(Some(firstResult.scoreText)), dbMatch))))

\* data.data[0], the entry the structured branch reads.
LastResult(results) == results[Len(results)]
FirstResult(results) == results[1]

\* The body of the try block of fetchEWGData.
fetchEWGDataTry(ingredient, response) ==
  IF response.kind = "neterr" THEN Thrown
  ELSE IF response.kind = "notok" THEN Returned(None)
  ELSE IF response.kind = "badjson" THEN Thrown
  ELSE IF response.data # None
  THEN \* structured data from the scraper: the first result
       IF Len(response.data[1]) = 0 THEN Returned(None)
       ELSE Returned(Some(StructuredRecord(ingredient, FirstResult(response.data[1]))))
  ELSE IF response.html # None
  THEN \* HTML fallback: the first .product-listing node
       IF Len(response.html[1]) = 0 THEN Returned(None)
       ELSE HtmlBranch(ingredient, response.html[1][1], findIngredientInDatabase(ingredient))
  ELSE Returned(None)

\* catch (error) { return null }
Catch(attempt) == IF attempt.outcome = "throw" THEN Returned(None) ELSE attempt

\* fetchEWGData without its catch clause.
fetchEWGDataNoCatch(ingredient, response) == fetchEWGDataTry(ingredient, response)

\* fetchEWGData: whatever the try block throws is caught and null returned.
fetchEWGData(ingredient, response) == Catch(fetchEWGDataTry(ingredient, response))

\* ------------------------------------------------------ resolution pipeline
\* ewgData?.field
OptionalField(ewgData, field) == IF ewgData = None THEN None ELSE ewgData[1][field]

\* The record pushed for one ingredient, with a benefits fallback added.
IngredientRecordBenefitsFallback(name, ewgData, dbMatch) ==
  [name |-> titleCase(name),
   function |-> OrString(OptionalField(ewgData, "function"),
                  IF dbMatch # None THEN dbMatch[1].category
                  ELSE Some(getIngredientFunction(name))),
   ewgScore |-> OrNumber(OptionalField(ewgData, "ewgScore"),
                  IF dbMatch # None THEN dbMatch[1].baseScore
                  ELSE Some(calculateDefaultScore(name))),
   safetyLevel |-> OrString(OptionalField(ewgData, "safetyLevel"),
                  IF dbMatch # None THEN Some(getSafetyLevel(dbMatch[1].baseScore))
                  ELSE Some(getSafetyLevel(Some(calculateDefaultScore(name))))),
   reasonForConcern |-> OrString(OptionalField(ewgData, "reasonForConcern"),
                  IF dbMatch # None THEN JoinConcerns(dbMatch[1])
                  ELSE getDefaultConcern(Some(calculateDefaultScore(name)))),
   commonUse |-> OrString(OptionalField(ewgData, "commonUse"), Some(getCommonUse(name))),
   scientificName |-> IF dbMatch = None THEN None ELSE dbMatch[1].scientificName,
   benefits |-> OrString(JoinOptional(dbMatch, "benefits", ", "), Some(getCommonUse(name))),
   restrictions |-> JoinOptional(dbMatch, "restrictions", ", "),
   naturalAlternatives |-> JoinOptional(dbMatch, "naturalAlternatives", ", "),
   researchLinks |-> JoinOptional(dbMatch, "researchLinks", "\n")]

\* The record analyzeIngredients pushes for one ingredient.
IngredientRecord(name, ewgData, dbMatch) ==
  [name |-> titleCase(name),
   function |-> OrString(OptionalField(ewgData, "function"),
                  IF dbMatch # None THEN dbMatch[1].category
                  ELSE Some(getIngredientFunction(name))),
   ewgScore |-> OrNumber(OptionalField(ewgData, "ewgScore"),
                  IF dbMatch # None THEN dbMatch[1].baseScore
                  ELSE Some(calculateDefaultScore(name))),
   safetyLevel |-> OrString(OptionalField(ewgData, "safetyLevel"),
                  IF dbMatch # None THEN Some(getSafetyLevel(dbMatch[1].baseScore))
                  ELSE Some(getSafetyLevel(Some(calculateDefaultScore(name))))),
   reasonForConcern |-> OrString(OptionalField(ewgData, "reasonForConcern"),
                  IF dbMatch # None THEN JoinConcerns(dbMatch[1])
                  ELSE getDefaultConcern(Some(calculateDefaultScore(name)))),
   commonUse |-> OrString(OptionalField(ewgData, "commonUse"), Some(getCommonUse(name))),
   scientificName |-> IF dbMatch = None THEN None ELSE dbMatch[1].scientificName,
   benefits |-> JoinOptional(dbMatch, "benefits", ", "),
   restrictions |-> JoinOptional(dbMatch, "restrictions", ", "),
   naturalAlternatives |-> JoinOptional(dbMatch, "naturalAlternatives", ", "),
   researchLinks |-> JoinOptional(dbMatch, "researchLinks", "\n")]

\* ---------------------------------------------------------- state machine
\* One iteration of the loop body for a token whose lookup met response:
\* what fetchEWGData did, the curated match and the merged record.
\* The record literal throws where it joins the concerns of a match that has
\* none, which it does when the remote result gives no concern text.
RecordThrows(ewgData, dbMatch) ==
  /\ OrString(OptionalField(ewgData, "reasonForConcern"), None) = None
  /\ dbMatch # None
  /\ JoinThrows(dbMatch[1])

LoopBodyWith(name, attempt, dbMatch) ==
  [attempt |-> attempt,
   dbMatch |-> dbMatch,
   threw |-> attempt.outcome = "throw" \/ RecordThrows(attempt.value, dbMatch),
   record |-> IF attempt.outcome = "throw" \/ RecordThrows(attempt.value, dbMatch)
              THEN None
              ELSE Some(IngredientRecord(name, attempt.value, dbMatch))]

LoopBody(name, response) ==
  LoopBodyWith(name, fetchEWGData(name, response), findIngredientInDatabase(name))

\* The loop body for every token that occurs and every remote response,
\* computed once.
loopBodyOf ==
  Tabulated([name \in TokenUniverse |->
               Tabulated([response \in RemoteResponses |-> LoopBody(name, response)])])

\* No helper function is called on its own.
NoFunctionCalled == called = "" /\ arguments = <<>> /\ returned = None

\* The edge function serves no request and fetchWithRetry is not called.
RetryIdle ==
  /\ maxRetries = 0
  /\ retryIndex = 0
  /\ retryPc = "idle"
  /\ attempts = <<>>
  /\ outcome = None

HandlerIdle ==
  /\ request = None
  /\ handlerPc = "idle"
  /\ scrapePc = "idle"
  /\ browser = "none"
  /\ scraped = None
  /\ htmlRead = None
  /\ sent = <<>>

EdgeIdle == RetryIdle /\ HandlerIdle

\* input              the text analyzeIngredients is called with
\* pc                 "idle", "loop" (at the head of the for loop), "await"
\*                    (suspended in await fetchEWGData), "done" (returned),
\*                    "rejected" (the promise rejected)
\* calls              calls of analyzeIngredients made so far
\* ingredientsArray   the tokens of the running call
\* started            loop iterations begun by the running call
\* inflight           indices of the tokens whose remote lookup is pending
\* analyzedIngredients the records pushed by the running call
\* lookups            per pushed record: the token, the remote response, what
\*                    fetchEWGData returned and the curated match
\* responses          the remote responses of the first call, by token index
\* previousReturn     what the first call returned
\* issued             remote lookups issued over all calls
Init ==
  /\ input \in InputTexts
  /\ pc = "idle"
  /\ calls = 0
  /\ ingredientsArray = <<>>
  /\ started = 0
  /\ inflight = {}
  /\ analyzedIngredients = <<>>
  /\ lookups = <<>>
  /\ responses = <<>>
  /\ previousReturn = <<>>
  /\ issued = 0
  /\ NoFunctionCalled
  /\ EdgeIdle

\* const analyzedIngredients = [] : every call starts from a fresh array.
StaleResults == analyzedIngredients
FreshResults == <<>>

\* analyzeIngredients is called (again, with the same text) and runs up to
\* the head of its loop.
Call ==
  /\ pc \in {"idle", "done"}
  /\ calls < MaxCalls
  /\ calls' = calls + 1
  /\ ingredientsArray' = ingredientsOf[input]
  /\ analyzedIngredients' = FreshResults
  /\ lookups' = <<>>
  /\ started' = 0
  /\ inflight' = {}
  /\ pc' = "loop"
  /\ UNCHANGED <<input, responses, previousReturn, issued, functionVars, edgeVars>>

\* for (const name of ingredientsArray) { await ... }: the next iteration
\* begins only at the head of the loop, never while a lookup is awaited.
LoopHeadNoAwait == pc \in {"loop", "await"}
LoopHead == pc = "loop"

\* The loop takes the next token and issues its remote lookup.
StartLookup ==
  /\ LoopHead
  /\ started < Len(ingredientsArray)
  /\ started' = started + 1
  /\ inflight' = inflight \cup {started + 1}
  /\ issued' = issued + 1
  /\ pc' = "await"
  /\ UNCHANGED <<input, calls, ingredientsArray, analyzedIngredients, lookups,
                 responses, previousReturn, functionVars, edgeVars>>

\* The first call meets any response; a later call meets the responses of
\* the first one again.
ResponsesFor(k) == IF calls = 1 THEN RemoteResponses ELSE {responses[k]}

\* The awaited lookup of token k resolves with response; body is what the
\* rest of the loop body computes: the curated lookup and the merged record,
\* which is pushed unless the lookup or the record literal threw.
Resolve(k, response, body) ==
  /\ inflight' = inflight \ {k}
  /\ responses' = IF calls = 1 THEN Append(responses, response) ELSE responses
  /\ IF body.threw
     THEN /\ pc' = "rejected"
          /\ UNCHANGED <<analyzedIngredients, lookups>>
     ELSE /\ pc' = "loop"
          /\ analyzedIngredients' = Append(analyzedIngredients, body.record[1])
          /\ lookups' = Append(lookups, [name |-> ingredientsArray[k],
                                         response |-> response,
                                         ewgData |-> body.attempt.value,
                                         dbMatch |-> body.dbMatch])

ResolveLookup ==
  /\ pc = "await"
  /\ \E k \in inflight : \E response \in ResponsesFor(k) :
       Resolve(k, response, loopBodyOf[ingredientsArray[k]][response])
  /\ UNCHANGED <<input, calls, ingredientsArray, started, previousReturn, issued,
                 functionVars, edgeVars>>

\* return analyzedIngredients
Return ==
  /\ pc = "loop"
  /\ started = Len(ingredientsArray)
  /\ inflight = {}
  /\ pc' = "done"
  /\ previousReturn' = IF calls = 1 THEN analyzedIngredients ELSE previousReturn
  /\ UNCHANGED <<input, calls, ingredientsArray, started, inflight,
                 analyzedIngredients, lookups, responses, issued, functionVars, edgeVars>>

Next == Call \/ StartLookup \/ ResolveLookup \/ Return

Spec == Init /\ [][Next]_vars

\* ------------------------------------------- helper functions on their own
\* analyzeIngredients is not running.
PipelineIdle ==
  /\ input = ""
  /\ pc = "idle"
  /\ calls = 0
  /\ ingredientsArray = <<>>
  /\ started = 0
  /\ inflight = {}
  /\ analyzedIngredients = <<>>
  /\ lookups = <<>>
  /\ responses = <<>>
  /\ previousReturn = <<>>
  /\ issued = 0

FunctionInit == PipelineIdle /\ NoFunctionCalled /\ EdgeIdle

\* The score texts parseScore is called with on its own: undefined, texts
\* put together from pieces, and texts as the remote collaborator gives them.
ScorePieces == {"7", "0", "12", "low", "High", "medium", " ", "x"}

RECURSIVE ScorePieceTexts(_)
ScorePieceTexts(n) ==
  IF n = 0 THEN {""}
  ELSE ScorePieceTexts(n - 1) \cup {t \o p : t \in ScorePieceTexts(n - 1), p \in ScorePieces}

ScoreTexts ==
  {None} \cup
  {Some(t) : t \in ScorePieceTexts(MaxPieces) \cup
     { "Score: 7/10", "This is a low risk ingredient", "Score: 3/10", "15", "007",
       "n/a", "unsafe", "safe", "poor to average", "low_risk", "lowest", "good-poor",
       "dangerous, not minimal", "HIGH 3", "4 low", "999999999" }}

parseScoreOf == Tabulated([scoreText \in ScoreTexts |-> parseScore(scoreText)])

\* The names calculateDefaultScore is called with on its own: the tokens
\* that occur, names of each tier, of several tiers and of none.
ClassifierNames ==
  TokenUniverse \cup
  { "", "Methylparaben", "PEG-40", "peg-", "peg-x", "Fragrance", "butylene glycol",
    "Aqua", "water", "Water", "distilled water", "glycerin", "vegetable glycerin",
    "vitamin e", "Vitamin K", "zinc oxide", "titanium dioxide",
    "green tea", "Green Tea", "green tea extract", "chamomile", "shea butter",
    "jojoba oil", "calendula", "lead acetate water", "fragrance (aloe)",
    "bht aqua peg-8", "coal tar", "xyz" }

calculateDefaultScoreOf ==
  Tabulated([name \in ClassifierNames |-> calculateDefaultScore(name)])

\* The strings calculateStringSimilarity is called with on its own: every
\* string over two letters up to the length bound.
RECURSIVE StringsUpTo(_)
StringsUpTo(n) ==
  IF n = 0 THEN {""}
  ELSE StringsUpTo(n - 1) \cup {t \o c : t \in StringsUpTo(n - 1), c \in {"a", "b"}}

SimilarityStrings == StringsUpTo(MaxLength)

calculateStringSimilarityOf ==
  Tabulated([pair \in SimilarityStrings \X SimilarityStrings |->
               calculateStringSimilarity(pair[1], pair[2])])

\* findIngredientInDatabase(name)
CallFindIngredientInDatabase ==
  /\ called = ""
  /\ \E name \in MatchNames :
       /\ called' = "findIngredientInDatabase"
       /\ arguments' = <<name>>
       /\ returned' = findIngredientInDatabase(name)
  /\ UNCHANGED <<pipelineVars, edgeVars>>

\* parseScore(scoreText)
CallParseScore ==
  /\ called = ""
  /\ \E scoreText \in ScoreTexts :
       /\ called' = "parseScore"
       /\ arguments' = <<scoreText>>
       /\ returned' = parseScoreOf[scoreText]
  /\ UNCHANGED <<pipelineVars, edgeVars>>

\* calculateDefaultScore(ingredient)
CallCalculateDefaultScore ==
  /\ called = ""
  /\ \E name \in ClassifierNames :
       /\ called' = "calculateDefaultScore"
       /\ arguments' = <<name>>
       /\ returned' = calculateDefaultScoreOf[name]
  /\ UNCHANGED <<pipelineVars, edgeVars>>

\* calculateStringSimilarity(str1, str2)
CallCalculateStringSimilarity ==
  /\ called = ""
  /\ \E str1 \in SimilarityStrings : \E str2 \in SimilarityStrings :
       /\ called' = "calculateStringSimilarity"
       /\ arguments' = <<str1, str2>>
       /\ returned' = calculateStringSimilarityOf[<<str1, str2>>]
  /\ UNCHANGED <<pipelineVars, edgeVars>>

\* The caller takes the result; another call can follow.
FunctionReturn ==
  /\ called # ""
  /\ called' = ""
  /\ arguments' = <<>>
  /\ returned' = None
  /\ UNCHANGED <<pipelineVars, edgeVars>>

FunctionNext ==
  \/ CallFindIngredientInDatabase
  \/ CallParseScore
  \/ CallCalculateDefaultScore
  \/ CallCalculateStringSimilarity
  \/ FunctionReturn

FunctionSpec == FunctionInit /\ [][FunctionNext]_vars

\* ----------------------------------------------------------- fetchWithRetry
\* maxRetries = 3 when the caller gives none.
DefaultMaxRetries == 3

\* What await fetch(url) settles with: a response whose ok flag is set, a
\* response whose ok flag is not set, or a rejection.
FetchResults == {"ok", "notok", "exception"}

\* How fetchWithRetry completes: with a return or a throw, by the attempt
\* (counted from 1) whose response or error it passes on.  The returned
\* value is a response or, when the loop ends, undefined.
Completion(kind, attempt, ok) == [kind |-> kind, attempt |-> attempt, ok |-> ok]

\* The try block throws: fetch rejected, or the response is not ok.
AttemptThrowsOnRejection(result) == result = "exception"
AttemptThrows(result) == result = "exception" \/ result = "notok"

\* retryPc  "idle", "test" (at i < maxRetries), "fetch" (in await fetch),
\*          "delay" (in await of the timer), "returned", "thrown"
\* retryIndex  the loop variable i
\* attempts    the results of the fetch calls made, in order
\* outcome     how the call completed
RetryInit ==
  /\ maxRetries \in 0..MaxRetries
  /\ retryIndex = 0
  /\ retryPc = "test"
  /\ attempts = <<>>
  /\ outcome = None
  /\ HandlerIdle
  /\ PipelineIdle
  /\ NoFunctionCalled

\* i < maxRetries: the next attempt calls fetch, or the loop ends and the
\* function returns undefined.
RetryTest ==
  /\ retryPc = "test"
  /\ IF retryIndex < maxRetries
     THEN /\ retryPc' = "fetch"
          /\ UNCHANGED outcome
     ELSE /\ retryPc' = "returned"
          /\ outcome' = Some(Completion("undefined", 0, FALSE))
  /\ UNCHANGED <<maxRetries, retryIndex, attempts, handlerVars, pipelineVars, functionVars>>

\* await fetch(url) settles: the response is returned, or the error is
\* thrown on the last iteration, or the timer is set.
FetchSettles ==
  /\ retryPc = "fetch"
  /\ \E result \in FetchResults :
       /\ attempts' = Append(attempts, result)
       /\ IF ~AttemptThrows(result)
          THEN /\ retryPc' = "returned"
               /\ outcome' = Some(Completion("response", retryIndex + 1, result = "ok"))
          ELSE IF retryIndex = maxRetries - 1
          THEN /\ retryPc' = "thrown"
               /\ outcome' = Some(Completion("error", retryIndex + 1, FALSE))
          ELSE /\ retryPc' = "delay"
               /\ UNCHANGED outcome
  /\ UNCHANGED <<maxRetries, retryIndex, handlerVars, pipelineVars, functionVars>>

\* The timer fires: i++.
DelayElapses ==
  /\ retryPc = "delay"
  /\ retryIndex' = retryIndex + 1
  /\ retryPc' = "test"
  /\ UNCHANGED <<maxRetries, attempts, outcome, handlerVars, pipelineVars, functionVars>>

RetryNext == RetryTest \/ FetchSettles \/ DelayElapses

RetrySpec == RetryInit /\ [][RetryNext]_vars

\* A fetch that was issued settles and a timer that was set fires.
RetryFairSpec == RetrySpec /\ WF_vars(RetryNext)

\* ------------------------------------------------- ewg-search request handler
\* The requests served: a method, and what url.searchParams.get("ingredient")
\* gives: null for a URL without the parameter, otherwise its value.
Methods == {"OPTIONS", "GET", "POST"}
IngredientParameters == {None, Some(""), Some("water"), Some("zinc oxide")}
Requests == [method : Methods, ingredient : IngredientParameters]

\* !ingredient
MissingIngredientNull(ingredient) == ingredient = None
MissingIngredient(ingredient) == ingredient = None \/ ingredient = Some("")

\* A response: its status and which body it carries: "null" (no body),
\* "required" ({error: "Ingredient parameter is required"}), "data"
\* ({data}), "html" ({html}) or "failed" ({error: "Failed to fetch EWG
\* data", details}).  Every response carries the CORS headers.
Response(status, body, payload) == [status |-> status, body |-> body, payload |-> payload]

\* The awaited calls of the try block of scrapeWithPuppeteer, in order.
ScrapeStages ==
  <<"newPage", "setUserAgent", "setRequestInterception", "goto", "waitForSelector",
    "evaluate">>

\* What page.evaluate gives: the entries of the .product-listing nodes.
ScrapedData ==
  { <<>>,
    <<Product(Some("7"), Some(<<"Irritation">>), Some("Solvent"))>> }

\* How scrapeWithPuppeteer completes: it returns data, or throws the error
\* of the call named.
ScrapeReturn(data) == [kind |-> "data", data |-> data, from |-> "evaluate"]
ScrapeThrow(from) == [kind |-> "error", data |-> <<>>, from |-> from]

\* request    the request served
\* handlerPc  "received", "scraping" (in await scrapeWithPuppeteer),
\*            "fallback" (in await fetchWithRetry), "text" (in await
\*            response.text()), "responded".  Whatever is thrown after
\*            the preflight test is thrown inside the outer try block, whose
\*            catch clause answers with status 500.
\* scrapePc   "idle", "connect" (in await puppeteer.connect), the awaited
\*            call of the try block, "close" (in await browser.close()),
\*            "done"
\* browser    "none", "open", "closed"
\* scraped    how the try/catch of scrapeWithPuppeteer completed and, once
\*            scrapePc is "done", how the call completed
\* htmlRead   whether response.text() gave the text
\* sent       the responses returned
EdgeInit ==
  /\ request \in Requests
  /\ handlerPc = "received"
  /\ scrapePc = "idle"
  /\ browser = "none"
  /\ scraped = None
  /\ htmlRead = None
  /\ sent = <<>>
  /\ RetryIdle
  /\ PipelineIdle
  /\ NoFunctionCalled

\* return new Response(...)
Respond(response) ==
  /\ sent' = Append(sent, response)
  /\ handlerPc' = "responded"

\* The handler runs up to its first await: the preflight answer, the answer
\* to a request without ingredient, or the call of scrapeWithPuppeteer.
Dispatch ==
  /\ handlerPc = "received"
  /\ IF request.method = "OPTIONS"
     THEN /\ Respond(Response(200, "null", None))
          /\ UNCHANGED scrapePc
     ELSE IF MissingIngredient(request.ingredient)
     THEN /\ Respond(Response(400, "required", None))
          /\ UNCHANGED scrapePc
     ELSE /\ handlerPc' = "scraping"
          /\ scrapePc' = "connect"
          /\ UNCHANGED sent
  /\ UNCHANGED <<request, browser, scraped, htmlRead, retryVars, pipelineVars, functionVars>>

\* await puppeteer.connect(...) settles; it is outside the try block, so a
\* rejection leaves scrapeWithPuppeteer at once.
ConnectSettles ==
  /\ scrapePc = "connect"
  /\ \E connected \in BOOLEAN :
       IF connected
       THEN /\ browser' = "open"
            /\ scrapePc' = ScrapeStages[1]
            /\ UNCHANGED scraped
       ELSE /\ scraped' = Some(ScrapeThrow("connect"))
            /\ scrapePc' = "done"
            /\ UNCHANGED browser
  /\ UNCHANGED <<request, handlerPc, htmlRead, sent, retryVars, pipelineVars, functionVars>>

\* An awaited call of the try block settles: the next call follows, or the
\* block returns the data, or the catch clause rethrows; the finally clause
\* comes next.
ScrapeStep ==
  /\ \E stage \in DOMAIN ScrapeStages : \E fulfilled \in BOOLEAN : \E data \in ScrapedData :
       /\ scrapePc = ScrapeStages[stage]
       /\ IF ~fulfilled
          THEN /\ scraped' = Some(ScrapeThrow(scrapePc))
               /\ scrapePc' = "close"
          ELSE IF stage < Len(ScrapeStages)
          THEN /\ scrapePc' = ScrapeStages[stage + 1]
               /\ UNCHANGED scraped
          ELSE /\ scraped' = Some(ScrapeReturn(data))
               /\ scrapePc' = "close"
  /\ UNCHANGED <<request, handlerPc, browser, htmlRead, sent, retryVars, pipelineVars,
                 functionVars>>

\* finally { await browser.close() }: a rejection replaces the completion
\* of the try/catch.
CloseSettles ==
  /\ scrapePc = "close"
  /\ \E closed \in BOOLEAN :
       IF closed
       THEN /\ browser' = "closed"
            /\ UNCHANGED scraped
       ELSE /\ scraped' = Some(ScrapeThrow("close"))
            /\ UNCHANGED browser
  /\ scrapePc' = "done"
  /\ UNCHANGED <<request, handlerPc, htmlRead, sent, retryVars, pipelineVars, functionVars>>

\* await scrapeWithPuppeteer(ewgUrl) settles in the handler: {data} is
\* returned, or the catch clause calls fetchWithRetry(ewgUrl).
ScrapeCompletes ==
  /\ handlerPc = "scraping"
  /\ scrapePc = "done"
  /\ IF scraped[1].kind = "data"
     THEN /\ Respond(Response(200, "data", Some(scraped[1].data)))
          /\ UNCHANGED retryVars
     ELSE /\ handlerPc' = "fallback"
          /\ maxRetries' = DefaultMaxRetries
          /\ retryIndex' = 0
          /\ retryPc' = "test"
          /\ attempts' = <<>>
          /\ outcome' = None
          /\ UNCHANGED sent
  /\ UNCHANGED <<request, scrapePc, browser, scraped, htmlRead, pipelineVars, functionVars>>

\* await fetchWithRetry(ewgUrl) settles in the handler: response.text() is
\* called on what it returned; a throw, of fetchWithRetry or of the call of
\* text on undefined, reaches the outer catch clause.
FallbackCompletes ==
  /\ handlerPc = "fallback"
  /\ retryPc \in {"returned", "thrown"}
  /\ IF retryPc = "returned" /\ outcome[1].kind = "response"
     THEN /\ handlerPc' = "text"
          /\ UNCHANGED sent
     ELSE Respond(Response(500, "failed", None))
  /\ UNCHANGED <<request, scrapePc, browser, scraped, htmlRead, retryVars, pipelineVars,
                 functionVars>>

\* await response.text() settles: {html} is returned, or the outer catch
\* clause answers.
TextSettles ==
  /\ handlerPc = "text"
  /\ \E fulfilled \in BOOLEAN :
       /\ htmlRead' = Some(fulfilled)
       /\ IF fulfilled
          THEN Respond(Response(200, "html", None))
          ELSE Respond(Response(500, "failed", None))
  /\ UNCHANGED <<request, scrapePc, browser, scraped, retryVars, pipelineVars, functionVars>>

EdgeNext ==
  \/ Dispatch
  \/ ConnectSettles
  \/ ScrapeStep
  \/ CloseSettles
  \/ ScrapeCompletes
  \/ RetryTest
  \/ FetchSettles
  \/ DelayElapses
  \/ FallbackCompletes
  \/ TextSettles

EdgeSpec == EdgeInit /\ [][EdgeNext]_vars

\* Every awaited operation settles.
EdgeFairSpec == EdgeSpec /\ WF_vars(EdgeNext)

\* ================================================================= claims
\* The band function of the data model: <= 2 Low, <= 6 Moderate, > 6 High.
Band(score) ==
  IF score <= 2 THEN "Low Concern"
  ELSE IF score <= 6 THEN "Moderate Concern"
  ELSE "High Concern"

Records == 1..Len(analyzedIngredients)

\* What the heuristic classifier gives for a token, tabulated.
heuristicOf ==
  Tabulated([name \in TokenUniverse |->
     [function |-> Some(getIngredientFunction(name)),
      ewgScore |-> Some(calculateDefaultScore(name)),
      reasonForConcern |-> getDefaultConcern(Some(calculateDefaultScore(name)))]])

\* The curated entry's value of a merged field.
CuratedValue(field, entry) ==
  IF field = "function" THEN entry.category
  ELSE IF field = "ewgScore" THEN entry.baseScore
  ELSE IF entry.concerns = None THEN None
  ELSE Some(Join(entry.concerns[1], ", "))

\* The value of a merged field when the remote lookup gives nothing for it:
\* the curated entry's when there is one, otherwise the heuristic one.
CuratedOrHeuristic(field, name, dbMatch) ==
  IF dbMatch # None THEN CuratedValue(field, dbMatch[1]) ELSE heuristicOf[name][field]

MergedFields == {"function", "ewgScore", "reasonForConcern"}

CuratedOnlyFields ==
  {"scientificName", "benefits", "restrictions", "naturalAlternatives", "researchLinks"}

\* The responses that are failures of the lookup: a network error, a non-OK
\* status, a body that does not parse, a body with neither data nor html.
IsFailure(response) ==
  response.kind \in {"neterr", "notok", "badjson"}
  \/ (response.kind = "json" /\ response.data = None /\ response.html = None)

\* C1: in every returned record safetyLevel is the band of that record's
\* ewgScore, whatever the remote lookup gave.
C1_SafetyLevelMatchesScore ==
  \A i \in Records :
    /\ analyzedIngredients[i].ewgScore # None
    /\ analyzedIngredients[i].safetyLevel = Some(Band(analyzedIngredients[i].ewgScore[1]))

\* C2: every ewgScore of a record is an integer from 1 to 10, whichever
\* source supplied it.
C2_ScoreInRange ==
  \A i \in Records :
    /\ analyzedIngredients[i].ewgScore # None
    /\ analyzedIngredients[i].ewgScore[1] \in 1..10

\* C2 witness: a record whose score came from a remote score text above the
\* range ("15") and was clamped to 10.
C2_Witness ==
  \E i \in Records :
    /\ lookups[i].response.data # None
    /\ Len(lookups[i].response.data[1]) > 0
    /\ lookups[i].response.data[1][1].score = Some("15")
    /\ analyzedIngredients[i].ewgScore = Some(10)

\* C3: each of function, ewgScore and reasonForConcern is the remote value
\* when the remote result is present and carries the field, otherwise the
\* curated value when a curated entry matched, otherwise the heuristic value.
C3_FieldPriority ==
  \A i \in Records : \A field \in MergedFields :
    analyzedIngredients[i][field] =
      IF lookups[i].ewgData # None /\ lookups[i].ewgData[1][field] # None
      THEN lookups[i].ewgData[1][field]
      ELSE CuratedOrHeuristic(field, lookups[i].name, lookups[i].dbMatch)

\* The kept tokens of a text, stated on the positions of the text: a segment
\* is a maximal run of characters that are not delimiters; its token is what
\* lies between its first and its last character that is not whitespace; the
\* token is kept when it has more than one character.
SegmentStarts(text) ==
  {a \in 1..Len(text) :
     ~IsDelimiter(Char(text, a)) /\ (a = 1 \/ IsDelimiter(Char(text, a - 1)))}

SegmentEnd(text, a) ==
  CHOOSE b \in a..Len(text) :
    /\ \A j \in a..b : ~IsDelimiter(Char(text, j))
    /\ b = Len(text) \/ IsDelimiter(Char(text, b + 1))

Inked(text, a) == {j \in a..SegmentEnd(text, a) : ~IsWhitespace(Char(text, j))}

Least(S) == CHOOSE x \in S : \A y \in S : x <= y
Greatest(S) == CHOOSE x \in S : \A y \in S : x >= y

KeptStarts(text) ==
  {a \in SegmentStarts(text) :
     Inked(text, a) # {} /\ Greatest(Inked(text, a)) > Least(Inked(text, a))}

\* The title-cased token of text[lo..hi]: a letter that begins the token or
\* follows a space is upper case, every other letter lower case.
RECURSIVE TitleCased(_, _, _, _)
TitleCased(text, lo, j, hi) ==
  IF j > hi THEN ""
  ELSE (IF j = lo \/ Char(text, j - 1) = " "
        THEN UpperChar(LowerChar(Char(text, j)))
        ELSE LowerChar(Char(text, j)))
       \o TitleCased(text, lo, j + 1, hi)

ExpectedNames(text) ==
  LET starts == KeptStarts(text) IN
  [k \in 1..Cardinality(starts) |->
     LET a == CHOOSE x \in starts : Cardinality({y \in starts : y < x}) = k - 1 IN
     TitleCased(text, Least(Inked(text, a)), Least(Inked(text, a)), Greatest(Inked(text, a)))]

expectedNamesOf == Tabulated([text \in InputTexts |-> ExpectedNames(text)])

C5_OneLookupAtATime ==
  /\ Cardinality(inflight) <= 1
  /\ \A k \in inflight : k = started /\ Len(analyzedIngredients) = k - 1

\* C5 witness: the second token's lookup is in flight after the first
\* token's record was appended.
C5_Witness == inflight = {2} /\ Len(analyzedIngredients) = 1 /\ pc = "await"

\* C6: no call is rejected; a lookup that failed gave none and its record
\* holds the curated or heuristic values; a call that returns has a record
\* for every token.
C6_FailuresDegradeToNone ==
  /\ pc # "rejected"
  /\ \A i \in Records :
       IsFailure(lookups[i].response) =>
         /\ lookups[i].ewgData = None
         /\ \A field \in MergedFields :
              analyzedIngredients[i][field] =
                CuratedOrHeuristic(field, lookups[i].name, lookups[i].dbMatch)
  /\ pc = "done" => Len(analyzedIngredients) = Len(ingredientsArray)

\* C6 witness: a call returned after every one of its lookups failed, by a
\* network error and by an unparsable body among them.
C6_Witness ==
  /\ pc = "done"
  /\ Len(analyzedIngredients) >= 2
  /\ \A i \in Records : IsFailure(lookups[i].response)
  /\ \E i \in Records : lookups[i].response.kind = "neterr"
  /\ \E i \in Records : lookups[i].response.kind = "badjson"

\* C7: every record has a score, a function and a concern text that are not
\* none.
C7_FieldsPresent ==
  \A i \in Records : \A field \in MergedFields : analyzedIngredients[i][field] # None

\* C7 witness: a record without remote data whose curated entry has an
\* empty concerns list: its concern text is the empty string, not none.
C7_Witness ==
  \E i \in Records :
    /\ lookups[i].ewgData = None
    /\ lookups[i].dbMatch # None
    /\ lookups[i].dbMatch[1].concerns = Some(<<>>)
    /\ analyzedIngredients[i].reasonForConcern = Some("")

\* C8: the curated-only fields of a record are absent when no curated entry
\* matched the token, and otherwise are the matched entry's.
C8_CuratedOnlyFields ==
  \A i \in Records :
    IF lookups[i].dbMatch = None
    THEN \A field \in CuratedOnlyFields : analyzedIngredients[i][field] = None
    ELSE /\ analyzedIngredients[i].scientificName = lookups[i].dbMatch[1].scientificName
         /\ \A field \in CuratedOnlyFields \ {"scientificName"} :
              (analyzedIngredients[i][field] = None) = (lookups[i].dbMatch[1][field] = None)

\* C8 witness: a record built from a remote result for a token without a
\* curated match.
C8_Witness ==
  \E i \in Records :
    /\ lookups[i].dbMatch = None
    /\ lookups[i].ewgData # None
    /\ analyzedIngredients[i].benefits = None

\* A text of whitespace and delimiters only (the empty text among them).
OnlyBlank(text) ==
  \A i \in 1..Len(text) : IsWhitespace(Char(text, i)) \/ IsDelimiter(Char(text, i))

\* C9: for an input of whitespace and delimiters only no lookup is issued,
\* no record is produced and the call is not rejected.
C9_BlankInputGivesNothing ==
  OnlyBlank(input) =>
    /\ issued = 0
    /\ analyzedIngredients = <<>>
    /\ pc \notin {"await", "rejected"}

\* C9 witness: a call with a non-empty blank input has returned.
C9_Witness == OnlyBlank(input) /\ input # "" /\ pc = "done" /\ calls >= 1

\* C10: a later call with the same input that meets the same responses
\* returns what the first call returned.
C10_SameInputSameOutput ==
  (pc = "done" /\ calls >= 2) => analyzedIngredients = previousReturn

\* C10 witness: a second call returned two records or more, one of them
\* built from remote data.
C10_Witness ==
  /\ pc = "done"
  /\ calls = 2
  /\ Len(analyzedIngredients) >= 2
  /\ \E i \in Records : lookups[i].ewgData # None

\* The keys whose similarity to a name is the greatest, by their position in
\* the declaration order.
BestKeys(similarity) ==
  {k \in DOMAIN similarity :
     \A j \in DOMAIN similarity : ~FracGreater(similarity[j], similarity[k])}

\* What the data model says the curated lookup gives for a lowercased name
\* with the given similarities to the keys: the entry under the name if
\* there is one, otherwise the first entry of greatest similarity if that
\* similarity exceeds the threshold, otherwise none.
ExpectedMatchWith(lower, similarity) ==
  IF \E k \in DOMAIN similarity : ingredientDatabase[k].key = lower
  THEN Some(ingredientDatabase[CHOOSE k \in DOMAIN similarity :
                                 ingredientDatabase[k].key = lower])
  ELSE IF FracGreater(similarity[Least(BestKeys(similarity))], SimilarityThreshold)
  THEN Some(ingredientDatabase[Least(BestKeys(similarity))])
  ELSE None

expectedMatchOf ==
  Tabulated([name \in MatchNames |->
               ExpectedMatchWith(toLowerCase(name), Similarities(toLowerCase(name)))])

\* C11: findIngredientInDatabase(name) returns the entry stored under the
\* lowercased name when there is one, otherwise the first entry in
\* declaration order of greatest similarity to the name when that similarity
\* is greater than 0.8, otherwise none.
C11_CuratedMatch ==
  called = "findIngredientInDatabase" => returned = expectedMatchOf[arguments[1]]

\* C11 for the names that are not an inherited property name.
C11_ExceptInheritedKeys ==
  (called = "findIngredientInDatabase" /\ toLowerCase(arguments[1]) \notin InheritedKeys)
    => returned = expectedMatchOf[arguments[1]]

\* The kinds of match are all met: a key in another case, a near key, two
\* equally near keys of which the first is returned, and no key near enough.
C11_MatchKinds ==
  /\ matchOf["PARABEN"] # None /\ matchOf["PARABEN"][1].key = "paraben"
  /\ matchOf["glycerine"] # None /\ matchOf["glycerine"][1].key = "glycerin"
  /\ matchOf["vitamin d"] # None /\ matchOf["vitamin d"][1].key = "vitamin e"
  /\ matchOf["methylparaben"] = None
  /\ matchOf["xyzxyzxyz"] = None

\* The words of a text: its maximal runs of word characters, in lower case.
WordsOf(text) ==
  {toLowerCase(SubSeq(text, a, b)) :
     <<a, b>> \in {ab \in (1..Len(text)) \X (1..Len(text)) :
                    /\ ab[1] <= ab[2]
                    /\ \A j \in ab[1]..ab[2] : IsWordChar(Char(text, j))
                    /\ ab[1] = 1 \/ ~IsWordChar(Char(text, ab[1] - 1))
                    /\ ab[2] = Len(text) \/ ~IsWordChar(Char(text, ab[2] + 1))}}

\* The positions of the first numeral of a text that holds a digit, and the
\* number a decimal numeral denotes.
DigitPositions(text) == {j \in 1..Len(text) : IsDigit(Char(text, j))}

NumeralEnd(text, a) ==
  Greatest({b \in a..Len(text) : \A j \in a..b : IsDigit(Char(text, j))})

RECURSIVE Denoted(_, _, _)
Denoted(text, a, b) ==
  IF b < a THEN 0 ELSE 10 * Denoted(text, a, b - 1) + DigitValue[Char(text, b)]

\* What the data model says parseScore gives.
ExpectedScore(scoreText) ==
  IF scoreText = None \/ scoreText[1] = "" THEN None
  ELSE IF DigitPositions(scoreText[1]) # {}
  THEN Some(Greatest({1, Least({10,
         Denoted(scoreText[1], Least(DigitPositions(scoreText[1])),
                 NumeralEnd(scoreText[1], Least(DigitPositions(scoreText[1]))))})}))
  ELSE IF WordsOf(scoreText[1]) \cap {"low", "safe", "minimal", "good"} # {} THEN Some(2)
  ELSE IF WordsOf(scoreText[1]) \cap {"moderate", "medium", "average"} # {} THEN Some(5)
  ELSE IF WordsOf(scoreText[1]) \cap {"high", "unsafe", "dangerous", "poor"} # {} THEN Some(8)
  ELSE None

expectedScoreOf == Tabulated([scoreText \in ScoreTexts |-> ExpectedScore(scoreText)])

\* C12: parseScore gives none for an absent or empty text; for a text with
\* a digit the first numeral clamped to 1..10, whatever keywords the text
\* holds; otherwise 2, 5 or 8 for the first of the low, moderate and high
\* keyword groups a word of the text belongs to; otherwise none.  So the
\* result is none or an integer from 1 to 10.
C12_ParseScore ==
  called = "parseScore" =>
    /\ returned = expectedScoreOf[arguments[1]]
    /\ returned = None \/ returned[1] \in 1..10

\* C12 witness: a text with a high keyword before the numeral 3 gave 3.
C12_Witness ==
  called = "parseScore" /\ arguments = <<Some("HIGH 3")>> /\ returned = Some(3)

\* The tiers a name matches.
MatchesHigh(name) == \E p \in highPatterns : Includes(toLowerCase(name), p)
MatchesModerate(name) ==
  MatchesPegDigits(toLowerCase(name))
  \/ \E p \in moderatePatterns : Includes(toLowerCase(name), p)
MatchesLow(name) == \E p \in lowPatterns : Includes(toLowerCase(name), p)
MatchesVeryLow(name) == toLowerCase(name) \in veryLowPatterns

\* C13: calculateDefaultScore gives 8 exactly for the names that match the
\* high tier; 2 exactly for those that match the low tier and neither the
\* high nor the moderate one; 1 exactly for those that match the veryLow
\* tier and none of the three others; 5 for every other name, which is one
\* that matches the moderate and not the high tier, or no tier at all.
C13_TierOrder ==
  called = "calculateDefaultScore" =>
    /\ returned \in {1, 2, 5, 8}
    /\ (returned = 8) = MatchesHigh(arguments[1])
    /\ (returned = 2) =
         (MatchesLow(arguments[1])
            /\ ~MatchesHigh(arguments[1]) /\ ~MatchesModerate(arguments[1]))
    /\ (returned = 1) =
         (MatchesVeryLow(arguments[1]) /\ ~MatchesLow(arguments[1])
            /\ ~MatchesHigh(arguments[1]) /\ ~MatchesModerate(arguments[1]))

\* C13 witness: a name that matches the high tier and the low tier (where
\* "water" alone is also a veryLow name) scored 8.
C13_Witness ==
  /\ called = "calculateDefaultScore"
  /\ arguments = <<"lead acetate water">>
  /\ MatchesHigh(arguments[1]) /\ MatchesLow(arguments[1])
  /\ returned = 8

\* The Levenshtein distance of two strings, by its recurrence.
RECURSIVE Levenshtein(_, _)
Levenshtein(a, b) ==
  IF Len(a) = 0 THEN Len(b)
  ELSE IF Len(b) = 0 THEN Len(a)
  ELSE Least({Levenshtein(SubSeq(a, 2, Len(a)), b) + 1,
              Levenshtein(a, SubSeq(b, 2, Len(b))) + 1,
              Levenshtein(SubSeq(a, 2, Len(a)), SubSeq(b, 2, Len(b)))
                + (IF Char(a, 1) = Char(b, 1) THEN 0 ELSE 1)})

levenshteinOf ==
  Tabulated([pair \in SimilarityStrings \X SimilarityStrings |->
               Levenshtein(pair[1], pair[2])])

MaxLen(a, b) == IF Len(a) > Len(b) THEN Len(a) ELSE Len(b)

\* Two fractions with positive denominators are the same number.
FracEqual(x, y) == x[1] * y[2] = y[1] * x[2]

\* C14: calculateStringSimilarity(a, b) is (maxLen - Levenshtein(a, b)) /
\* maxLen, and 1 for two empty strings; it lies between 0 and 1, is the
\* same for (b, a), and is 1 exactly when a = b.
C14_Similarity ==
  called = "calculateStringSimilarity" =>
    /\ returned[2] > 0
    /\ IF MaxLen(arguments[1], arguments[2]) = 0
       THEN FracEqual(returned, <<1, 1>>)
       ELSE FracEqual(returned,
                      <<MaxLen(arguments[1], arguments[2]) - levenshteinOf[arguments],
                        MaxLen(arguments[1], arguments[2])>>)
    /\ ~FracGreater(<<0, 1>>, returned) /\ ~FracGreater(returned, <<1, 1>>)
    /\ FracEqual(returned, calculateStringSimilarityOf[<<arguments[2], arguments[1]>>])
    /\ FracEqual(returned, <<1, 1>>) = (arguments[1] = arguments[2])

\* C14 witness: two strings of different lengths and one edit apart gave a
\* similarity strictly between 0 and 1.
C14_Witness ==
  /\ called = "calculateStringSimilarity"
  /\ arguments = <<"ab", "bab">>
  /\ returned = <<2, 3>>

\* A structured response cut down to its first entry.
FirstOnly(response) == Body(Some(<<response.data[1][1]>>), response.html)

\* C15: for a structured response the result of fetchEWGData is built from
\* the first entry (its score text, concerns and category) and is what the
\* response cut down to its first entry gives; for an empty sequence it is
\* none; for markup without a listing node it is none.
C15_FirstEntryOnly ==
  \A i \in Records :
    /\ (lookups[i].response.data # None /\ Len(lookups[i].response.data[1]) > 0) =>
         /\ lookups[i].ewgData # None
         /\ lookups[i].ewgData[1].ewgScore = parseScore(lookups[i].response.data[1][1].score)
         /\ lookups[i].ewgData[1].function = lookups[i].response.data[1][1].category
         /\ lookups[i].ewgData[1].reasonForConcern =
              (IF lookups[i].response.data[1][1].concerns = None THEN None
               ELSE Some(Join(lookups[i].response.data[1][1].concerns[1], ", ")))
         /\ lookups[i].ewgData =
              fetchEWGData(lookups[i].name, FirstOnly(lookups[i].response)).value
    /\ (lookups[i].response.data # None /\ Len(lookups[i].response.data[1]) = 0) =>
         lookups[i].ewgData = None
    /\ (lookups[i].response.kind = "json" /\ lookups[i].response.data = None
          /\ lookups[i].response.html # None /\ Len(lookups[i].response.html[1]) = 0) =>
         lookups[i].ewgData = None

\* C15 witness: a structured response of two entries gave the score and the
\* category of its first entry, which differ from those of its second.
C15_Witness ==
  \E i \in Records :
    /\ lookups[i].response.data # None
    /\ Len(lookups[i].response.data[1]) = 2
    /\ lookups[i].response.data[1][2].score = Some("2")
    /\ lookups[i].ewgData # None
    /\ lookups[i].ewgData[1].ewgScore = Some(7)
    /\ lookups[i].ewgData[1].function = Some("Solvent")

\* fetchWithRetry has completed.
RetryCompleted == retryPc \in {"returned", "thrown"}

\* The attempts that failed: fetch rejected or the status was not OK.
FailedAttempts == {k \in 1..Len(attempts) : attempts[k] # "ok"}

C17_AtMostMaxRetries ==
  maxRetries >= 1 =>
    /\ Len(attempts) <= maxRetries
    /\ \A k \in 1..(Len(attempts) - 1) : k \in FailedAttempts
    /\ retryPc = "returned" =>
         /\ Len(attempts) >= 1
         /\ attempts[Len(attempts)] = "ok"
         /\ outcome = Some(Completion("response", Len(attempts), TRUE))
    /\ retryPc = "thrown" =>
         /\ Len(attempts) = maxRetries
         /\ FailedAttempts = 1..maxRetries
         /\ outcome = Some(Completion("error", maxRetries, FALSE))
    /\ (Len(attempts) = maxRetries /\ FailedAttempts = 1..maxRetries) => retryPc = "thrown"
    /\ (Len(attempts) >= 1 /\ attempts[Len(attempts)] = "ok") => retryPc = "returned"

\* C17: called with maxRetries >= 1, fetchWithRetry completes, having made
\* at most maxRetries fetch attempts; every attempt before the last made
\* failed; it returns exactly when an attempt is OK, with the response of
\* that attempt, which is the last attempt made; it throws exactly when
\* maxRetries attempts failed, with the error of the last one; it returns
\* no response that is not OK.
C17_RetryTerminates == [](C17_AtMostMaxRetries) /\ <>(RetryCompleted)

\* C17 witness: with maxRetries = 3 the first two attempts failed, one by a
\* rejection and one by a status that is not OK, and the third was returned.
C17_Witness ==
  /\ maxRetries = 3
  /\ attempts = <<"exception", "notok", "ok">>
  /\ retryPc = "returned"

\* The handler has answered.
Responded == handlerPc = "responded"

\* What the handler does for the request served, given whether the request
\* counts as one without an ingredient: at most one response is returned,
\* and one is when the handler ends; OPTIONS
\* gets the preflight response and a request without ingredient status 400,
\* both without a scrape or a fetch; any other request is scraped first; a
\* scrape that returns gives {data} without a fetch; the fallback fetch is
\* made only after the scrape threw, gives {html} when fetchWithRetry
\* returns and the text is read, and status 500 only when one of them fails.
HandlerAnswers(withoutIngredient) ==
  /\ Len(sent) <= 1
  /\ Responded = (Len(sent) = 1)
  /\ scrapePc # "idle" => (request.method # "OPTIONS" /\ ~withoutIngredient)
  /\ retryPc # "idle" => (scrapePc = "done" /\ scraped[1].kind = "error")
  /\ Responded =>
       IF request.method = "OPTIONS"
       THEN sent[1] = Response(200, "null", None) /\ scrapePc = "idle" /\ retryPc = "idle"
       ELSE IF withoutIngredient
       THEN sent[1] = Response(400, "required", None) /\ scrapePc = "idle" /\ retryPc = "idle"
       ELSE /\ scrapePc = "done"
            /\ IF scraped[1].kind = "data"
               THEN sent[1] = Response(200, "data", Some(scraped[1].data)) /\ retryPc = "idle"
               ELSE IF retryPc = "returned" /\ htmlRead = Some(TRUE)
               THEN sent[1] = Response(200, "html", None)
               ELSE /\ sent[1] = Response(500, "failed", None)
                    /\ retryPc = "thrown" \/ htmlRead = Some(FALSE)

\* C16 as stated: the request without an ingredient is the one whose URL has
\* no ingredient parameter; every request is answered, no failure of an
\* awaited call leaving the handler without a response, with one response
\* as described above.
C16_OneResponsePerRequest ==
  [](HandlerAnswers(request.ingredient = None)) /\ <>(Responded)

\* C16 amended: the request without an ingredient is the one whose URL has
\* no ingredient parameter or an empty one; every request is answered, no
\* failure of an awaited call leaving the handler without a response, with
\* one response as described above.
C16_OneResponsePerRequestAmended ==
  [](HandlerAnswers(request.ingredient \in {None, Some("")})) /\ <>(Responded)

\* C16 witness: the scrape threw in page.goto, the browser was closed, the
\* three fetch attempts of the fallback failed, and status 500 was returned.
C16_Witness ==
  /\ scraped = Some(ScrapeThrow("goto"))
  /\ browser = "closed"
  /\ attempts = <<"exception", "notok", "exception">>
  /\ sent = <<Response(500, "failed", None)>>

====
